---- MODULE Spec2Model ----
(***************************************************************************)
(* lib/coins/coins.js: the Coins record (the unspent outputs of one        *)
(* transaction), its CoinEntry handles and the compact serialization.      *)
(*                                                                         *)
(* Representation.  A buffer and a script are sequences of bytes 0..255.   *)
(* A value that may be absent (null / undefined in the source) is the      *)
(* empty sequence when absent and a one-element sequence when present.     *)
(* A number written with writeU32 is kept as a pair of 16-bit halves       *)
(* [hi, lo] standing for hi * 65536 + lo, so that both -1 and 4294967295   *)
(* have a representation.                                                  *)
(***************************************************************************)
EXTENDS Integers, Sequences, FiniteSets, TLC

(***************************************************************************)
(* Bounds of the model.                                                    *)
(***************************************************************************)
\* highest output index an operation is called with
MaxIndex == 10
\* number of record mutations in one behaviour
MaxOps == 1
\* number of outputs of the longest transaction given to fromTX
MaxTxOutputs == 3

Null == << >>
Some(x) == << x >>

Rep(n, b) == [i \in 1..n |-> b]

(***************************************************************************)
(* Numbers held in a u32 field: hi * 65536 + lo.                           *)
(***************************************************************************)
Num(hi, lo) == [hi |-> hi, lo |-> lo]

\* the height of an unconfirmed transaction, -1
UNCONFIRMED == Num(-1, 65535)

NULL_HASH == "0000"

(***************************************************************************)
(* utils/reader, utils/staticwriter: varint, u32-le.                       *)
(***************************************************************************)
RECURSIVE varintBytes(_, _)
varintBytes(n, last) ==
  LET b == (n % 128) + (IF last THEN 0 ELSE 128)
  IN  IF n <= 127 THEN << b >>
      ELSE varintBytes((n \div 128) - 1, FALSE) \o << b >>

writeVarint(n) == varintBytes(n, TRUE)

sizeVarint(n) == Len(writeVarint(n))

RECURSIVE readVarintFrom(_, _, _)
readVarintFrom(data, off, n) ==
  LET ch == data[off + 1]
      m  == n * 128 + (ch % 128)
  IN  IF ch >= 128 THEN readVarintFrom(data, off + 1, m + 1)
      ELSE [value |-> m, offset |-> off + 1]

\* br.readVarint() with the reader at byte offset off
readVarint(data, off) == readVarintFrom(data, off, 0)

writeU32(n) ==
  << n.lo % 256, (n.lo \div 256) % 256, n.hi % 256, (n.hi \div 256) % 256 >>

readU32(data, off) ==
  Num(data[off + 4] * 256 + data[off + 3], data[off + 2] * 256 + data[off + 1])

\* bw.copy(data, start, end) and the bytes a reader takes
slice(data, start, end) == SubSeq(data, start + 1, end)

(***************************************************************************)
(* Script templates and script.isUnspendable() (OP_RETURN is 106).         *)
(***************************************************************************)
P2PKH(h) == << 118, 169, 20 >> \o h \o << 136, 172 >>
P2SH(h) == << 169, 20 >> \o h \o << 135 >>
P2PK(key) == << Len(key) >> \o key \o << 172 >>

isUnspendable(script) == Len(script) > 0 /\ script[1] = 106

isPubkeyhash(s) ==
  /\ Len(s) = 25
  /\ SubSeq(s, 1, 3) = << 118, 169, 20 >>
  /\ SubSeq(s, 24, 25) = << 136, 172 >>

isScripthash(s) ==
  /\ Len(s) = 23
  /\ SubSeq(s, 1, 2) = << 169, 20 >>
  /\ s[23] = 135

\* the y coordinate of the curve point with the given x and parity of y
recoverY(x, odd) ==
  [i \in 1..32 |-> IF i < 32 THEN x[33 - i] ELSE 2 * (x[1] \div 2) + odd]

\* ec.publicKeyVerify
publicKeyVerify(key) ==
  \/ Len(key) = 33 /\ key[1] \in {2, 3}
  \/ /\ Len(key) = 65
     /\ key[1] = 4
     /\ SubSeq(key, 34, 65) = recoverY(SubSeq(key, 2, 33), key[65] % 2)

isPubkey(s) ==
  /\ Len(s) \in {35, 67}
  /\ s[1] = Len(s) - 2
  /\ s[Len(s)] = 172
  /\ publicKeyVerify(SubSeq(s, 2, Len(s) - 1))

(***************************************************************************)
(* coins/compress: compress.output, compress.size, decompress.output,      *)
(* decompress.skip.                                                        *)
(***************************************************************************)
\* first prefix of a raw script: prefix = script length + COMPRESS_TYPES
COMPRESS_TYPES == 10

compressScript(s) ==
  IF isPubkeyhash(s) THEN << 0 >> \o SubSeq(s, 4, 23)
  ELSE IF isScripthash(s) THEN << 1 >> \o SubSeq(s, 3, 22)
  ELSE IF isPubkey(s) /\ Len(s) = 35 THEN << s[2] >> \o SubSeq(s, 3, 34)
  ELSE IF isPubkey(s) THEN << 4 + (s[66] % 2) >> \o SubSeq(s, 3, 34)
  ELSE writeVarint(Len(s) + COMPRESS_TYPES) \o s

compressOutput(output) == writeVarint(output.value) \o compressScript(output.script)

compressSize(output) == Len(compressOutput(output))

\* the script read at byte offset off, and the offset after it
decompressScript(data, off) ==
  LET p == data[off + 1]
  IN  IF p = 0 THEN [script |-> P2PKH(slice(data, off + 1, off + 21)), offset |-> off + 21]
      ELSE IF p = 1 THEN [script |-> P2SH(slice(data, off + 1, off + 21)), offset |-> off + 21]
      ELSE IF p \in {2, 3}
        THEN [script |-> P2PK(<< p >> \o slice(data, off + 1, off + 33)), offset |-> off + 33]
      ELSE IF p \in {4, 5}
        THEN LET x == slice(data, off + 1, off + 33)
             IN  [script |-> P2PK(<< 4 >> \o x \o recoverY(x, p - 4)), offset |-> off + 33]
      ELSE LET v == readVarint(data, off)
               n == v.value - COMPRESS_TYPES
           IN  [script |-> slice(data, v.offset, v.offset + n), offset |-> v.offset + n]

decompressOutput(data, off) ==
  LET v == readVarint(data, off)
      s == decompressScript(data, v.offset)
  IN  [value |-> v.value, script |-> s.script]

\* decompress.skip: the number of bytes of the compressed output at off
decompressSkip(data, off) ==
  LET v == readVarint(data, off)
      p == data[v.offset + 1]
      e == IF p \in {0, 1} THEN v.offset + 21
           ELSE IF p \in {2, 3, 4, 5} THEN v.offset + 33
           ELSE LET w == readVarint(data, v.offset)
                IN  w.offset + (w.value - COMPRESS_TYPES)
  IN  e - off

(***************************************************************************)
(* CoinEntry.                                                              *)
(***************************************************************************)
\* new CoinEntry(): offset, size, raw, output, spent
CoinEntry == [offset |-> 0, size |-> 0, raw |-> Null, output |-> Null, spent |-> FALSE]

fromOutput(output) == [CoinEntry EXCEPT !.output = Some(output)]

fromCoin(coin) ==
  [CoinEntry EXCEPT !.output = Some([value |-> coin.value, script |-> coin.script])]

fromReader(data, off) ==
  [CoinEntry EXCEPT !.offset = off, !.size = decompressSkip(data, off), !.raw = data]

\* toOutput that lets go of the buffer once the output is decompressed
toOutputDropRaw(entry) ==
  IF entry.output = Null
    THEN [entry EXCEPT !.output = Some(decompressOutput(entry.raw, entry.offset)),
                       !.raw = Null]
    ELSE entry

\* the entry after entry.toOutput(): the output is decompressed once and cached
toOutput(entry) ==
  IF entry.output = Null
    THEN [entry EXCEPT !.output = Some(decompressOutput(entry.raw, entry.offset))]
    ELSE entry

\* whether entry.toOutput() runs decompress.output
inflates(entry) == entry.output = Null

entryGetSize(entry) ==
  IF entry.raw = Null THEN compressSize(entry.output[1]) ELSE entry.size

\* toWriter that passes the size where bw.copy takes the end offset
toWriterCopyEnd(entry) ==
  IF entry.raw = Null THEN compressOutput(entry.output[1])
  ELSE slice(entry.raw, entry.offset, entry.size)

toWriter(entry) ==
  IF entry.raw = Null THEN compressOutput(entry.output[1])
  ELSE slice(entry.raw, entry.offset, entry.offset + entry.size)

\* the coin entry.toCoin(coins, index) returns (entry already materialized)
toCoin(entry, c, index) ==
  [version |-> c.version, coinbase |-> c.coinbase, height |-> c.height,
   hash |-> c.hash, index |-> index,
   script |-> toOutput(entry).output[1].script,
   value |-> toOutput(entry).output[1].value]

(***************************************************************************)
(* Coins: queries.                                                         *)
(***************************************************************************)
\* new Coins()
NewCoins ==
  [version |-> 1, hash |-> NULL_HASH, height |-> UNCONFIRMED, coinbase |-> TRUE,
   outputs |-> << >>]

has(c, index) ==
  IF index >= Len(c.outputs) THEN FALSE ELSE c.outputs[index + 1] # Null

isUnspent(c, index) ==
  IF index >= Len(c.outputs) THEN FALSE
  ELSE LET output == c.outputs[index + 1]
       IN  IF output = Null \/ output[1].spent THEN FALSE ELSE TRUE

\* the slot at index: Null when out of range or a gap
get(c, index) ==
  IF index >= Len(c.outputs) THEN Null ELSE c.outputs[index + 1]

RECURSIVE lengthFrom(_, _)
lengthFrom(c, len) ==
  IF len > 0 /\ ~isUnspent(c, len - 1) THEN lengthFrom(c, len - 1) ELSE len

length(c) == lengthFrom(c, Len(c.outputs))

\* cleanup that drops one trailing gap only
cleanupOnce(c) ==
  IF Len(c.outputs) > 0 /\ c.outputs[Len(c.outputs)] = Null
    THEN [c EXCEPT !.outputs = SubSeq(c.outputs, 1, Len(c.outputs) - 1)]
    ELSE c

RECURSIVE cleanupFrom(_, _)
cleanupFrom(outputs, len) ==
  IF len > 0 /\ outputs[len] = Null THEN cleanupFrom(outputs, len - 1) ELSE len

\* the record after cleanup()
cleanup(c) == [c EXCEPT !.outputs = SubSeq(c.outputs, 1, cleanupFrom(c.outputs, Len(c.outputs)))]

isEmpty(c) == length(c) = 0

(***************************************************************************)
(* Coins: serialization.                                                   *)
(***************************************************************************)
\* header without its assertions
headerUnchecked(c, len, size) ==
  LET first  == isUnspent(c, 0)
      second == isUnspent(c, 1)
      offset == IF ~first /\ ~second THEN 1 ELSE 0
  IN  [ok |-> TRUE,
       code |-> 8 * (size - offset)
                + (IF c.coinbase THEN 1 ELSE 0)
                + (IF first THEN 2 ELSE 0)
                + (IF second THEN 4 ELSE 0)]

\* header(len, size): ok is FALSE when an assertion throws
header(c, len, size) ==
  LET first  == isUnspent(c, 0)
      second == isUnspent(c, 1)
      offset == IF ~first /\ ~second THEN 1 ELSE 0
  IN  IF len = 0 THEN [ok |-> FALSE, code |-> 0]
      ELSE IF ~first /\ ~second /\ size = 0 THEN [ok |-> FALSE, code |-> 0]
      ELSE [ok |-> TRUE,
            code |-> 8 * (size - offset)
                     + (IF c.coinbase THEN 1 ELSE 0)
                     + (IF first THEN 2 ELSE 0)
                     + (IF second THEN 4 ELSE 0)]

RECURSIVE spentByteFromZero(_, _, _, _)
\* the spent field counted from output 0 instead of output 2
spentByteFromZero(c, len, i, j) ==
  IF j < 8 /\ 2 + i * 8 + j < len
    THEN (IF isUnspent(c, i * 8 + j) THEN 2 ^ j ELSE 0) + spentByteFromZero(c, len, i, j + 1)
    ELSE 0

RECURSIVE spentByte(_, _, _, _)
\* the inner loop of toRaw: bits j..7 of byte i of the spent field
spentByte(c, len, i, j) ==
  IF j < 8 /\ 2 + i * 8 + j < len
    THEN (IF isUnspent(c, 2 + i * 8 + j) THEN 2 ^ j ELSE 0) + spentByte(c, len, i, j + 1)
    ELSE 0

spentField(c, len, size) == [k \in 1..size |-> spentByte(c, len, k - 1, 0)]

RECURSIVE writeOutputs(_, _, _)
\* the compressed outputs i..len-1 as toRaw writes them
writeOutputs(c, len, i) ==
  IF i >= len THEN << >>
  ELSE LET output == c.outputs[i + 1]
       IN  (IF output = Null \/ output[1].spent THEN << >> ELSE toWriter(output[1]))
           \o writeOutputs(c, len, i + 1)

RECURSIVE sizeOutputs(_, _, _)
sizeOutputs(c, len, i) ==
  IF i >= len THEN 0
  ELSE LET output == c.outputs[i + 1]
       IN  (IF output = Null \/ output[1].spent THEN 0 ELSE entryGetSize(output[1]))
           + sizeOutputs(c, len, i + 1)

getSize(c, len, size, code) ==
  sizeVarint(c.version) + 4 + sizeVarint(code) + size + sizeOutputs(c, len, 0)

\* toRaw(): ok is FALSE when it throws, data is the buffer it returns
toRaw(c) ==
  LET len  == length(c)
      size == (len + 5) \div 8
      hd   == header(c, len, size)
      data == writeVarint(c.version) \o writeU32(c.height) \o writeVarint(hd.code)
              \o spentField(c, len, size) \o writeOutputs(c, len, 0)
  IN  IF ~hd.ok THEN [ok |-> FALSE, data |-> << >>]
      ELSE [ok |-> Len(data) = getSize(c, len, size, hd.code), data |-> data]

\* the header read without adding the 1 back to the size
readHeaderNoCorrection(data) ==
  LET v == readVarint(data, 0)
      c == readVarint(data, v.offset + 4)
  IN  [version |-> v.value,
       height |-> readU32(data, v.offset),
       code |-> c.value,
       coinbase |-> (c.value % 2) # 0,
       size |-> c.value \div 8,
       offset |-> c.offset]

\* the header fields fromRaw and parseCoin read, with the recalculated size
readHeader(data) ==
  LET v == readVarint(data, 0)
      c == readVarint(data, v.offset + 4)
  IN  [version |-> v.value,
       height |-> readU32(data, v.offset),
       code |-> c.value,
       coinbase |-> (c.value % 2) # 0,
       size |-> (c.value \div 8) + (IF (c.value \div 2) % 4 = 0 THEN 1 ELSE 0),
       offset |-> c.offset]

\* whether bit j of byte ch is set
bit(ch, j) == (ch \div (2 ^ j)) % 2 # 0

\* the slots in the order both decoders walk them: outputs 0 and 1 from the
\* header code, then bit j of byte i of the spent field for output 2 + 8i + j
presence(data, h) ==
  << bit(h.code, 1), bit(h.code, 2) >>
  \o [k \in 1..(8 * h.size) |-> bit(data[h.offset + ((k - 1) \div 8) + 1], (k - 1) % 8)]

RECURSIVE readEntries(_, _, _, _)
\* the slots k.. pushed by fromRaw, with the reader at byte offset off
readEntries(data, pres, k, off) ==
  IF k > Len(pres) THEN << >>
  ELSE IF pres[k]
    THEN LET entry == fromReader(data, off)
         IN  << Some(entry) >> \o readEntries(data, pres, k + 1, off + entry.size)
    ELSE << Null >> \o readEntries(data, pres, k + 1, off)

\* Coins.fromRaw(data, hash)
fromRaw(data, hash) ==
  LET h == readHeader(data)
  IN  cleanup([version |-> h.version, hash |-> hash, height |-> h.height,
               coinbase |-> h.coinbase,
               outputs |-> readEntries(data, presence(data, h), 1, h.offset + h.size)])

RECURSIVE walkCoinGapStuck(_, _, _, _, _, _)
\* the walk that does not count the index down at a gap
walkCoinGapStuck(data, pres, k, off, index, coin) ==
  IF k > Len(pres) THEN Null
  ELSE IF pres[k]
    THEN IF index = 0
           THEN LET o == decompressOutput(data, off)
                IN  Some([coin EXCEPT !.value = o.value, !.script = o.script])
           ELSE walkCoinGapStuck(data, pres, k + 1, off + decompressSkip(data, off),
                                 index - 1, coin)
    ELSE IF index = 0 THEN Null
         ELSE walkCoinGapStuck(data, pres, k + 1, off, index, coin)

RECURSIVE walkCoin(_, _, _, _, _, _)
\* the two loops of parseCoin from slot k on, index still to be counted down
walkCoin(data, pres, k, off, index, coin) ==
  IF k > Len(pres) THEN Null
  ELSE IF pres[k]
    THEN IF index = 0
           THEN LET o == decompressOutput(data, off)
                IN  Some([coin EXCEPT !.value = o.value, !.script = o.script])
           ELSE walkCoin(data, pres, k + 1, off + decompressSkip(data, off), index - 1, coin)
    ELSE IF index = 0 THEN Null
         ELSE walkCoin(data, pres, k + 1, off, index - 1, coin)

\* Coins.parseCoin(data, hash, index): Null when it returns undefined
parseCoin(data, hash, index) ==
  LET h == readHeader(data)
      coin == [version |-> h.version, coinbase |-> h.coinbase, height |-> h.height,
               hash |-> hash, index |-> index, script |-> << >>, value |-> 0]
  IN  IF index >= 2 + h.size * 8 THEN Null
      ELSE walkCoin(data, presence(data, h), 1, h.offset + h.size, index, coin)

\* getCoin(index) on a record: Null when it returns undefined
getCoin(c, index) ==
  LET entry == get(c, index)
  IN  IF entry = Null THEN Null ELSE Some(toCoin(entry[1], c, index))

(***************************************************************************)
(* Coins: construction and mutation.                                       *)
(***************************************************************************)
\* fromTX(tx, height) on a new record
fromTX(tx, height) ==
  cleanup([version |-> tx.version, hash |-> tx.hash, height |-> height,
           coinbase |-> tx.coinbase,
           outputs |-> [i \in 1..Len(tx.outputs) |->
                          IF isUnspendable(tx.outputs[i].script) THEN Null
                          ELSE Some(fromOutput(tx.outputs[i]))]])

\* fromOptions(options) on a new record; an absent option is Null
fromOptions(options) ==
  LET c1 == IF options.version # Null THEN [NewCoins EXCEPT !.version = options.version[1]]
            ELSE NewCoins
      c2 == IF options.hash # Null THEN [c1 EXCEPT !.hash = options.hash[1]] ELSE c1
      c3 == IF options.height # Null THEN [c2 EXCEPT !.height = options.height[1]] ELSE c2
      c4 == IF options.coinbase # Null THEN [c3 EXCEPT !.coinbase = options.coinbase[1]] ELSE c3
  IN  IF options.outputs # Null THEN cleanup([c4 EXCEPT !.outputs = options.outputs[1]])
      ELSE c4

\* add(index, entry): ok is FALSE when the assertion throws
add(c, index, entry) ==
  LET padded == IF Len(c.outputs) <= index
                  THEN c.outputs \o Rep(index + 1 - Len(c.outputs), Null)
                  ELSE c.outputs
  IN  IF index < 0 THEN [ok |-> FALSE, coins |-> c]
      ELSE IF padded[index + 1] # Null THEN [ok |-> FALSE, coins |-> [c EXCEPT !.outputs = padded]]
      ELSE [ok |-> TRUE,
            coins |-> [c EXCEPT !.outputs = [padded EXCEPT ![index + 1] = Some(entry)]]]

\* addOutput without the isUnspendable assertion
addOutputUnchecked(c, index, output) == add(c, index, fromOutput(output))

addOutput(c, index, output) ==
  IF isUnspendable(output.script) THEN [ok |-> FALSE, coins |-> c]
  ELSE add(c, index, fromOutput(output))

addCoin(c, coin) ==
  IF isUnspendable(coin.script) THEN [ok |-> FALSE, coins |-> c]
  ELSE add(c, coin.index, fromCoin(coin))

\* spend that does not look at the spent flag
spendAgain(c, index) ==
  LET entry == get(c, index)
  IN  IF entry = Null THEN [coins |-> c, ret |-> Null]
      ELSE LET marked == [entry[1] EXCEPT !.spent = TRUE]
           IN  [coins |-> [c EXCEPT !.outputs[index + 1] = Some(marked)],
                ret |-> Some(marked)]

\* spend(index): ret is Null when it returns undefined
spend(c, index) ==
  LET entry == get(c, index)
  IN  IF entry = Null \/ entry[1].spent THEN [coins |-> c, ret |-> Null]
      ELSE LET marked == [entry[1] EXCEPT !.spent = TRUE]
           IN  [coins |-> [c EXCEPT !.outputs[index + 1] = Some(marked)],
                ret |-> Some(marked)]

\* remove without the cleanup
removeNoCleanup(c, index) ==
  LET entry == get(c, index)
  IN  IF entry = Null THEN [coins |-> c, ret |-> Null]
      ELSE [coins |-> [c EXCEPT !.outputs[index + 1] = Null], ret |-> entry]

\* remove(index): ret is Null when it returns false
remove(c, index) ==
  LET entry == get(c, index)
  IN  IF entry = Null THEN [coins |-> c, ret |-> Null]
      ELSE [coins |-> cleanup([c EXCEPT !.outputs[index + 1] = Null]), ret |-> entry]

\* getOutput(index): the record after the call and what it returns
getOutput(c, index) ==
  LET entry == get(c, index)
  IN  IF entry = Null THEN [coins |-> c, ret |-> Null, inflated |-> FALSE]
      ELSE [coins |-> [c EXCEPT !.outputs[index + 1] = Some(toOutput(entry[1]))],
            ret |-> toOutput(entry[1]).output,
            inflated |-> inflates(entry[1])]

(***************************************************************************)
(* Inputs.                                                                 *)
(***************************************************************************)
Outputs ==
  << [value |-> 5000, script |-> P2PKH(Rep(20, 17))],
     [value |-> 1, script |-> << 106, 1, 42 >>],
     [value |-> 0, script |-> P2SH(Rep(20, 34))],
     [value |-> 200, script |-> P2PK(<< 3 >> \o Rep(32, 51))],
     [value |-> 7, script |-> P2PK(<< 4 >> \o Rep(32, 68) \o recoverY(Rep(32, 68), 1))],
     [value |-> 546, script |-> << 81 >>],
     [value |-> 20000, script |-> << >>] >>

\* output i of the transaction whose outputs start at position shift of Outputs
OutputAt(shift, i) == Outputs[((shift + i) % Len(Outputs)) + 1]

Hashes == {"aa", "bb"}
Heights == {UNCONFIRMED, Num(1, 4464)}
\* the indices operations are called with: outputs 0..2 and the highest
Indices == {i \in 0..MaxIndex : i <= 2 \/ i = MaxIndex}

\* a coinbase of version 1 and a version 2 transaction, with 0..MaxTxOutputs outputs
TXS ==
  { [version |-> k, hash |-> "aa", coinbase |-> (k = 1),
     outputs |-> [i \in 1..n |-> OutputAt(3 * (k - 1), i - 1)]]
    : k \in {1, 2}, n \in 0..MaxTxOutputs }

\* the outputs given to add, addOutput and addCoin
AddOutputs == {Outputs[2], Outputs[6]}

SpentEntry(o) == [fromOutput(o) EXCEPT !.spent = TRUE]

OptionOutputs ==
  { << >>,
    << Null >>,
    << Null, Null, Some(fromOutput(Outputs[3])) >>,
    << Some(SpentEntry(Outputs[4])), Null, Some(fromOutput(Outputs[5])), Null >>,
    Rep(8, Null) \o << Some(fromOutput(Outputs[7])) >> }

OPTIONS ==
  { [version |-> Null, hash |-> Null, height |-> Null, coinbase |-> Null, outputs |-> Null] }
  \cup { [version |-> Some(300), hash |-> Some("bb"), height |-> Some(Num(0, 100)),
          coinbase |-> Some(FALSE), outputs |-> Some(o)] : o \in OptionOutputs }

(***************************************************************************)
(* The state: one record, and the database value last written for it.      *)
(***************************************************************************)
VARIABLES
  coins,     \* the Coins record
  db,        \* the database entry written for the record as it is, Null if none
  op,        \* the last operation called
  ret,       \* what it returned (Null for undefined)
  err,       \* whether it threw
  inflated,  \* whether it ran decompress.output
  nops       \* number of calls so far that changed the record

vars == << coins, db, op, ret, err, inflated, nops >>

Init ==
  /\ coins = NewCoins
  /\ db = Null
  /\ op = "new"
  /\ ret = Null
  /\ err = FALSE
  /\ inflated = FALSE
  /\ nops = 0

\* a call on the record that leaves it as c2
Call(name, c2, r, e, infl) ==
  /\ c2 = coins \/ nops < MaxOps
  /\ coins' = c2
  /\ nops' = IF c2 = coins THEN nops ELSE nops + 1
  /\ op' = name
  /\ ret' = r
  /\ err' = e
  /\ inflated' = infl
  /\ db' = IF c2 = coins THEN db ELSE Null

\* a constructor called on the new record
Construct(name, c2) ==
  /\ op = "new"
  /\ coins' = c2
  /\ op' = name
  /\ UNCHANGED << db, ret, err, inflated, nops >>

FromTX == \E tx \in TXS, height \in Heights : Construct("fromTX", fromTX(tx, height))

FromOptions == \E options \in OPTIONS : Construct("fromOptions", fromOptions(options))

Add ==
  \E index \in Indices, o \in AddOutputs :
    LET r == add(coins, index, fromOutput(o))
    IN  Call("add", r.coins, Null, ~r.ok, FALSE)

AddOutput ==
  \E index \in Indices, o \in AddOutputs :
    LET r == addOutput(coins, index, o)
    IN  Call("addOutput", r.coins, Null, ~r.ok, FALSE)

AddCoin ==
  \E index \in Indices, o \in AddOutputs :
    LET coin == [version |-> coins.version, coinbase |-> coins.coinbase,
                 height |-> coins.height, hash |-> coins.hash, index |-> index,
                 script |-> o.script, value |-> o.value]
        r == addCoin(coins, coin)
    IN  Call("addCoin", r.coins, Null, ~r.ok, FALSE)

Spend ==
  \E index \in Indices :
    LET r == spend(coins, index)
    IN  Call("spend", r.coins, r.ret, FALSE, FALSE)

Remove ==
  \E index \in Indices :
    LET r == remove(coins, index)
    IN  Call("remove", r.coins, r.ret, FALSE, FALSE)

Cleanup == Call("cleanup", cleanup(coins), Null, FALSE, FALSE)

GetOutput ==
  \E index \in Indices :
    LET r == getOutput(coins, index)
    IN  Call("getOutput", r.coins, r.ret, FALSE, r.inflated)

GetCoin ==
  \E index \in Indices :
    LET r == getOutput(coins, index)
    IN  Call("getCoin", r.coins, getCoin(coins, index), FALSE, r.inflated)

\* toRaw(); the buffer is stored in the database under the record's hash
ToRaw ==
  LET r == toRaw(coins)
  IN  /\ db' = IF r.ok THEN Some([key |-> coins.hash, data |-> r.data]) ELSE db
      /\ op' = "toRaw"
      /\ ret' = IF r.ok THEN Some(r.data) ELSE Null
      /\ err' = ~r.ok
      /\ inflated' = FALSE
      /\ UNCHANGED << coins, nops >>

\* Coins.fromRaw(data, hash) of the database value and its key
FromRaw ==
  /\ db # Null
  /\ coins' = fromRaw(db[1].data, db[1].key)
  /\ op' = "fromRaw"
  /\ ret' = Null
  /\ err' = FALSE
  /\ inflated' = FALSE
  /\ UNCHANGED << db, nops >>

\* Coins.parseCoin(data, hash, index) of the database value and its key
ParseCoin ==
  /\ db # Null
  /\ \E index \in Indices :
       /\ op' = "parseCoin"
       /\ ret' = parseCoin(db[1].data, db[1].key, index)
       /\ err' = FALSE
       /\ inflated' = FALSE
       /\ UNCHANGED << coins, db, nops >>

Next ==
  \/ FromTX
  \/ FromOptions
  \/ Add
  \/ AddOutput
  \/ AddCoin
  \/ Spend
  \/ Remove
  \/ Cleanup
  \/ GetOutput
  \/ GetCoin
  \/ ToRaw
  \/ FromRaw
  \/ ParseCoin

Spec == Init /\ [][Next]_vars

(***************************************************************************)
(* The records built by fromTX, addOutput and addCoin alone.               *)
(***************************************************************************)
NextBuilt ==
  \/ FromTX
  \/ AddOutput
  \/ AddCoin
  \/ Spend
  \/ Remove
  \/ Cleanup
  \/ GetOutput
  \/ GetCoin
  \/ ToRaw
  \/ FromRaw
  \/ ParseCoin

SpecBuilt == Init /\ [][NextBuilt]_vars

(***************************************************************************)
(* Properties.                                                             *)
(***************************************************************************)
\* the output an entry stands for
outputOf(entry) == toOutput(entry).output[1]

\* the indices of a record and of its decoding
Slots(c) == 0..(Len(c.outputs) + 8)

\* the number readU32 returns for a 32-bit pattern
U32(n) == Num(n.hi % 65536, n.lo)

\* the record decoded from what toRaw just returned
Decoded == fromRaw(ret[1], coins.hash)

Serialized == op = "toRaw" /\ ~err

\* the outputs part of the round trip: same unspent indices, equal outputs
SameUnspent(c, d) ==
  \A i \in Slots(c) :
    /\ isUnspent(d, i) = isUnspent(c, i)
    /\ isUnspent(c, i) =>
         outputOf(d.outputs[i + 1][1]) = outputOf(c.outputs[i + 1][1])

\* C1 as stated: decoding the serialization of a record with length() >= 1
\* under its own hash gives the same version, height and coinbase, the same
\* unspent indices and equal (value, script) at each unspent index.
C1_RoundTripAnyHeight ==
  Serialized =>
    /\ Decoded.version = coins.version
    /\ Decoded.height = coins.height
    /\ Decoded.coinbase = coins.coinbase
    /\ SameUnspent(coins, Decoded)

\* C1 amended: the same, with the height read back as the unsigned 32-bit
\* number of the four bytes written: equal for a height in 0..2^32-1, and
\* 4294967295 for the unconfirmed height -1.
C1_RoundTrip ==
  Serialized =>
    /\ Decoded.version = coins.version
    /\ Decoded.height = U32(coins.height)
    /\ (coins.height.hi >= 0 => Decoded.height = coins.height)
    /\ (coins.height = UNCONFIRMED => Decoded.height = Num(65535, 65535))
    /\ Decoded.coinbase = coins.coinbase
    /\ Decoded.hash = coins.hash
    /\ SameUnspent(coins, Decoded)

\* a confirmed record with a live entry, a spent-marked entry and a gap below
\* a live entry has been serialized
C1_Witness ==
  /\ Serialized
  /\ coins.height.hi >= 0
  /\ \E i, j, k \in 0..(Len(coins.outputs) - 1) :
       /\ isUnspent(coins, i)
       /\ has(coins, j) /\ ~isUnspent(coins, j)
       /\ ~has(coins, k) /\ k < i

\* C2: for the buffer toRaw returned, every hash and every index, parseCoin
\* and getCoin on the fully decoded record return the same coin, or both
\* return nothing.
C2_SingleCoinConsistency ==
  Serialized =>
    \A hash \in Hashes :
      LET d == fromRaw(ret[1], hash)
      IN  \A i \in 0..(MaxIndex + 8) : parseCoin(ret[1], hash, i) = getCoin(d, i)

\* a buffer in which parseCoin finds a coin above a gap, finds nothing at the
\* gap, and is asked for an index past the spent field
C2_Witness ==
  /\ Serialized
  /\ \E i, k \in 0..MaxIndex :
       /\ k < i
       /\ parseCoin(ret[1], coins.hash, i) # Null
       /\ parseCoin(ret[1], coins.hash, k) = Null
  /\ \E i \in 0..MaxIndex : i >= 2 + 8 * readHeader(ret[1]).size

\* C3: a record just decoded from a buffer, with no entry materialized and
\* no mutation, serializes to the same bytes.
C3_ByteCopyRoundTrip ==
  op = "fromRaw" => toRaw(coins) = [ok |-> TRUE, data |-> db[1].data]

\* a record with a gap between raw-backed entries has just been decoded
C3_Witness ==
  /\ op = "fromRaw"
  /\ \E i, k \in 0..(Len(coins.outputs) - 1) :
       /\ k < i
       /\ ~has(coins, k)
       /\ has(coins, i) /\ coins.outputs[i + 1][1].raw # Null
       /\ coins.outputs[i + 1][1].output = Null

Mutated == op \in {"add", "addOutput", "addCoin", "spend", "remove", "cleanup"}

C5_SpendIdempotence ==
  \A i \in 0..(MaxIndex + 1) :
    LET r1 == spend(coins, i)
        r2 == spend(r1.coins, i)
    IN  /\ r2.coins = r1.coins
        /\ r2.ret = Null
        /\ isUnspent(coins, i) =>
             /\ r1.ret = Some([coins.outputs[i + 1][1] EXCEPT !.spent = TRUE])
             /\ r1.coins = [coins EXCEPT !.outputs[i + 1] = r1.ret]
             /\ r1.ret # Null
        /\ ~isUnspent(coins, i) => r1.coins = coins /\ r1.ret = Null

\* spend was called on a record holding a spent-marked entry and was a no-op
C5_Witness ==
  /\ op = "spend"
  /\ ret = Null
  /\ \E i \in 0..(Len(coins.outputs) - 1) : has(coins, i) /\ ~isUnspent(coins, i)

\* no index of the record is unspent
NoUnspent == \A i \in 0..(Len(coins.outputs) - 1) : ~isUnspent(coins, i)

\* C6: toRaw throws, returning no buffer, exactly when length() is 0 (an
\* empty outputs vector, or only spent-marked entries); with length() >= 1
\* no assertion of header() fires and toRaw returns a buffer.
C6_FullySpentThrows ==
  /\ toRaw(coins).ok <=> ~NoUnspent
  /\ NoUnspent <=> length(coins) = 0
  /\ length(coins) >= 1 => header(coins, length(coins), (length(coins) + 5) \div 8).ok
  /\ op = "toRaw" =>
       /\ err <=> length(coins) = 0
       /\ err <=> ret = Null

\* toRaw threw on a record whose entries are all spent-marked but not removed
C6_Witness ==
  /\ op = "toRaw"
  /\ err
  /\ Len(coins.outputs) > 0

Unspendables == {o \in {Outputs[k] : k \in 1..Len(Outputs)} : isUnspendable(o.script)}

\* C7: addOutput and addCoin reject an unspendable output and leave the
\* record unchanged, fromTX leaves a gap at the index of an unspendable
\* output, and no record built by fromTX, addOutput and addCoin holds an
\* entry whose script is unspendable.
C7_UnspendableRejection ==
  /\ \A i \in Indices, o \in Unspendables :
       /\ addOutput(coins, i, o) = [ok |-> FALSE, coins |-> coins]
       /\ addCoin(coins, [index |-> i, script |-> o.script, value |-> o.value])
            = [ok |-> FALSE, coins |-> coins]
  /\ \A tx \in TXS, height \in Heights, k \in 1..MaxTxOutputs :
       (k <= Len(tx.outputs) /\ isUnspendable(tx.outputs[k].script))
         => ~has(fromTX(tx, height), k - 1)
  /\ \A i \in 0..(Len(coins.outputs) - 1) :
       has(coins, i) => ~isUnspendable(outputOf(coins.outputs[i + 1][1]).script)

\* addOutput was called on the empty record, where only an unspendable
\* script makes it throw, and threw
C7_WitnessRejected == op = "addOutput" /\ err /\ coins.outputs = << >>

\* C8: toRaw writes the code 8 * (S - c) + coinbase + 2 * first + 4 * second
\* with S = floor((length() + 5) / 8) and c = 1 when neither output 0 nor
\* output 1 is unspent, and the decoders' size rule gives back S, the
\* coinbase flag and the two presence bits.
C8_HeaderCode ==
  Serialized =>
    LET L == length(coins)
        S == (L + 5) \div 8
        c == IF ~isUnspent(coins, 0) /\ ~isUnspent(coins, 1) THEN 1 ELSE 0
        h == readHeader(ret[1])
    IN  /\ L >= 1
        /\ h.code = 8 * (S - c) + (IF coins.coinbase THEN 1 ELSE 0)
                    + (IF isUnspent(coins, 0) THEN 2 ELSE 0)
                    + (IF isUnspent(coins, 1) THEN 4 ELSE 0)
        /\ h.size = S
        /\ h.coinbase = coins.coinbase
        /\ bit(h.code, 1) = isUnspent(coins, 0)
        /\ bit(h.code, 2) = isUnspent(coins, 1)

\* a record with outputs 0 and 1 not unspent was serialized with a spent
\* field of two bytes
C8_Witness ==
  /\ Serialized
  /\ ~isUnspent(coins, 0)
  /\ ~isUnspent(coins, 1)
  /\ readHeader(ret[1]).size = 2
  /\ readHeader(ret[1]).code \div 8 = 1

SameButCache(e, f) ==
  /\ f.raw = e.raw
  /\ f.offset = e.offset
  /\ f.size = e.size
  /\ f.spent = e.spent
  /\ e.output # Null => f.output = e.output

\* C10: getOutput, getCoin and toOutput change nothing but the cached output
\* of an entry: the header fields, the slots, each entry's raw, offset, size
\* and spent, and the bytes toRaw returns stay the same; with the output
\* cached the call returns it without decompressing again.
C10_LazyReadOnly ==
  [][op' \in {"getOutput", "getCoin"} =>
       /\ [coins' EXCEPT !.outputs = << >>] = [coins EXCEPT !.outputs = << >>]
       /\ Len(coins'.outputs) = Len(coins.outputs)
       /\ \A j \in 1..Len(coins.outputs) :
            /\ (coins'.outputs[j] = Null) <=> (coins.outputs[j] = Null)
            /\ coins.outputs[j] # Null =>
                 SameButCache(coins.outputs[j][1], coins'.outputs[j][1])
       /\ toRaw(coins') = toRaw(coins)
       /\ inflated' => coins' # coins
       /\ \A i \in Indices :
            (has(coins', i) /\ coins'.outputs[i + 1][1].output # Null) =>
              getOutput(coins', i)
                = [coins |-> coins', ret |-> coins'.outputs[i + 1][1].output,
                   inflated |-> FALSE]
  ]_vars

\* getOutput decompressed a raw-backed entry of a decoded record
C10_Witness ==
  /\ op = "getOutput"
  /\ inflated
  /\ ret # Null
  /\ \E i \in 0..(Len(coins.outputs) - 1) :
       /\ has(coins, i)
       /\ coins.outputs[i + 1][1].raw # Null
       /\ coins.outputs[i + 1][1].output = ret

====
